---- MODULE Spec2Model ----
(***************************************************************************)
(* A model of the multi_tool_agent tutorial package: the mock tools        *)
(* (get_weather, get_weather_stateful, get_current_time), the keyword      *)
(* guardrail (block_keyword_guardrail), the construction of the agent      *)
(* team at import time and the scripted conversation of                    *)
(* run_team_conversation.                                                   *)
(*                                                                         *)
(* Python str values are TLA+ strings; a character is a string of length   *)
(* one.  Python dicts are functions over their keys, so a missing key is a *)
(* key outside the DOMAIN.                                                  *)
(***************************************************************************)
EXTENDS Integers, Sequences, FiniteSets, TLC

VARIABLES
    city,       \* the city argument the tools are called with
    state,      \* the session state dict (tool_context.state / callback_context.state)
    result,     \* the dict the last tool call returned, NoResult before any call
    op,         \* the last operation performed on the tools and the session state
    prev_op,    \* the operation before it
    now,        \* the wall clock read by get_current_time (hours since 2025-01-10 00:00 UTC)
    contents,   \* llm_request.contents: the history handed to the guardrail
    verdict,    \* what block_keyword_guardrail returned last: None or an LlmResponse
    pc,         \* where the program is: importing the modules, running a conversation, ...
    fails,      \* the agents whose own Agent(...) construction raises in this run
    agents,     \* the module-level agent variables: an agent or None each
    reported,   \* the agents whose construction error was caught and printed
    script,     \* the steps of the conversation still to run
    turn,       \* the turn in progress: its phase, query, engine use, final event
    transcript, \* the finished turns: query and response text, in order
    events,     \* call_agent_async: the events runner.run_async has still to yield
    consumed,   \* call_agent_async: how many events the loop has taken
    reply,      \* call_agent_async: its local final_response_text
    call_pc,    \* call_agent_async: "loop" while iterating, "printed" after the loop
    sessions,   \* the sessions of all session services: key -> state dict
    services,   \* how many InMemorySessionService instances have been created
    written,    \* per session, the value last written under each key
    ever_blocked \* whether a guardrail call on this session has returned a response

team_vars == <<pc, fails, agents, reported, script, turn, transcript>>

call_vars == <<events, consumed, reply, call_pc>>

store_vars == <<sessions, services, written>>

vars == <<city, state, result, op, prev_op, now, contents, verdict, team_vars, call_vars,
          store_vars, ever_blocked>>

tool_vars == <<city, result, now>>

(***************************************************************************)
(* Bounds of the model.                                                    *)
(***************************************************************************)
\* The most fragments a generated city string is put together from.
MaxFragments == 3

\* The most turns of a history handed to the guardrail.
MaxTurns == 3

\* The most queries of a conversation run by run_conversation.
MaxQueries == 2

(***************************************************************************)
(* str helpers: lower, upper, replace(" ", ""), capitalize, "in".          *)
(***************************************************************************)
UPPERCASE == "ABCDEFGHIJKLMNOPQRSTUVWXYZ"
LOWERCASE == "abcdefghijklmnopqrstuvwxyz"

CharAt(s, i) == SubSeq(s, i, i)

Rest(s) == SubSeq(s, 2, Len(s))

\* The cased ASCII letters: each upper-case letter with its lower-case form.
to_lower == [i \in 1..Len(UPPERCASE) |-> <<CharAt(UPPERCASE, i), CharAt(LOWERCASE, i)>>]

LowerPairs == {to_lower[i] : i \in 1..Len(UPPERCASE)}

LowerChar(c) ==
    IF \E p \in LowerPairs : p[1] = c
    THEN (CHOOSE p \in LowerPairs : p[1] = c)[2]
    ELSE c

UpperChar(c) ==
    IF \E p \in LowerPairs : p[2] = c
    THEN (CHOOSE p \in LowerPairs : p[2] = c)[1]
    ELSE c

RECURSIVE lower(_)
lower(s) == IF s = "" THEN "" ELSE LowerChar(CharAt(s, 1)) \o lower(Rest(s))

RECURSIVE upper(_)
upper(s) == IF s = "" THEN "" ELSE UpperChar(CharAt(s, 1)) \o upper(Rest(s))

\* s.replace(" ", "")
RECURSIVE replace_spaces(_)
replace_spaces(s) ==
    IF s = "" THEN ""
    ELSE (IF CharAt(s, 1) = " " THEN "" ELSE CharAt(s, 1)) \o replace_spaces(Rest(s))

\* s.capitalize(): first character upper-cased, the rest lower-cased
capitalize(s) == IF s = "" THEN "" ELSE UpperChar(CharAt(s, 1)) \o lower(Rest(s))

\* sub in s
Contains(s, sub) ==
    \E i \in 1..(Len(s) - Len(sub) + 1) : SubSeq(s, i, i + Len(sub) - 1) = sub

\* city.lower().replace(" ", "")
city_normalized(c) == replace_spaces(lower(c))

(***************************************************************************)
(* get_weather                                                             *)
(***************************************************************************)
mock_weather_db ==
    [newyork |-> [status |-> "success",
                  report |-> "The weather in New York is sunny with a temperature of 25°C."],
     london  |-> [status |-> "success",
                  report |-> "It's cloudy in London with a temperature of 15°C."],
     tokyo   |-> [status |-> "success",
                  report |-> "Tokyo is experiencing light rain and a temperature of 18°C."]]

weather_error_message(c) ==
    "Sorry, I don't have weather information for '" \o c \o "'."

\* get_weather looking the city up without lower-casing it
get_weather_case_sensitive(c) ==
    IF replace_spaces(c) \in DOMAIN mock_weather_db
    THEN mock_weather_db[replace_spaces(c)]
    ELSE [status |-> "error", error_message |-> weather_error_message(c)]

get_weather(c) ==
    IF city_normalized(c) \in DOMAIN mock_weather_db
    THEN mock_weather_db[city_normalized(c)]
    ELSE [status |-> "error", error_message |-> weather_error_message(c)]

(***************************************************************************)
(* get_weather_stateful                                                    *)
(***************************************************************************)
NoKey == "<absent>"

\* dict.get(key, default)
StateGet(st, key, default) == IF key \in DOMAIN st THEN st[key] ELSE default

\* dict[key] = value
StateSet(st, key, value) ==
    [k \in (DOMAIN st) \cup {key} |-> IF k = key THEN value ELSE st[k]]

stateful_weather_db ==
    [newyork |-> [temp_c |-> 25, condition |-> "sunny"],
     london  |-> [temp_c |-> 15, condition |-> "cloudy"],
     tokyo   |-> [temp_c |-> 18, condition |-> "light rain"]]

\* (temp_c * 9/5) + 32 as the exact fraction num/den.  Python computes it in
\* binary floating point; for the table's values the float is within 1e-14
\* of the fraction and never near a rounding tie.
\* the conversion with 9/5 taken as an integer division
to_fahrenheit_int_div(temp_c) == [num |-> temp_c * (9 \div 5) + 32, den |-> 1]

to_fahrenheit(temp_c) == [num |-> temp_c * 9 + 32 * 5, den |-> 5]

\* temp_value and temp_unit chosen by the preferred unit
temp_value(temp_c, unit) ==
    IF unit = "Fahrenheit" THEN to_fahrenheit(temp_c)
    ELSE [num |-> temp_c, den |-> 1]

temp_unit(unit) ==
    IF unit = "Fahrenheit" THEN "°F" ELSE "°C"

\* format(v, ".0f") of a non-negative value: round half to even, no decimals
format_0f(v) ==
    LET q == v.num \div v.den
        r == v.num % v.den
    IN  ToString(IF 2 * r < v.den THEN q
                 ELSE IF 2 * r > v.den THEN q + 1
                 ELSE IF q % 2 = 0 THEN q ELSE q + 1)

\* preferred_unit = tool_context.state.get("user_preference_temperature_unit", "Celsius")
\* the preference read with the wrong default
preferred_unit_default_fahrenheit(st) ==
    StateGet(st, "user_preference_temperature_unit", "Fahrenheit")

preferred_unit(st) == StateGet(st, "user_preference_temperature_unit", "Celsius")

stateful_report(c, st) ==
    LET data == stateful_weather_db[city_normalized(c)]
    IN  "The weather in " \o capitalize(c) \o " is " \o data.condition
        \o " with a temperature of "
        \o format_0f(temp_value(data.temp_c, preferred_unit(st)))
        \o temp_unit(preferred_unit(st)) \o "."

\* get_weather_stateful writing the city under the preference key
get_weather_stateful_wrong_key(c, st) ==
    IF city_normalized(c) \in DOMAIN stateful_weather_db
    THEN [result |-> [status |-> "success", report |-> stateful_report(c, st)],
          state  |-> StateSet(st, "user_preference_temperature_unit", c)]
    ELSE [result |-> [status |-> "error", error_message |-> weather_error_message(c)],
          state  |-> st]

\* The tool recording the city before it looks it up.
get_weather_stateful_writes_first(c, st) ==
    IF city_normalized(c) \in DOMAIN stateful_weather_db
    THEN [result |-> [status |-> "success", report |-> stateful_report(c, st)],
          state  |-> StateSet(st, "last_city_checked_stateful", c)]
    ELSE [result |-> [status |-> "error", error_message |-> weather_error_message(c)],
          state  |-> StateSet(st, "last_city_checked_stateful", c)]

\* The returned dict and the session state the call leaves behind.
get_weather_stateful(c, st) ==
    IF city_normalized(c) \in DOMAIN stateful_weather_db
    THEN [result |-> [status |-> "success", report |-> stateful_report(c, st)],
          state  |-> StateSet(st, "last_city_checked_stateful", c)]
    ELSE [result |-> [status |-> "error", error_message |-> weather_error_message(c)],
          state  |-> st]

(***************************************************************************)
(* get_current_time                                                        *)
(***************************************************************************)
\* The zones ZoneInfo resolves, at their standard-time offsets (hours).
zones ==
    [new_york |-> [tz_identifier |-> "America/New_York", abbr |-> "EST", offset |-> -5,
                   z |-> "-0500"],
     tokyo    |-> [tz_identifier |-> "Asia/Tokyo", abbr |-> "JST", offset |-> 9,
                   z |-> "+0900"],
     london   |-> [tz_identifier |-> "Europe/London", abbr |-> "GMT", offset |-> 0,
                   z |-> "+0000"]]

Pad2(n) == IF n < 10 THEN "0" \o ToString(n) ELSE ToString(n)

\* now.strftime("%Y-%m-%d %H:%M:%S %Z%z"); the clock counts whole hours
\* from 2025-01-10 00:00 UTC.
strftime(t, zone) ==
    LET local == t + zone.offset
    IN  "2025-01-" \o Pad2(10 + (local \div 24)) \o " " \o Pad2(local % 24)
        \o ":00:00 " \o zone.abbr \o zone.z

\* The lookup through get_weather's normalisation (spaces dropped).
time_zone_of_normalized(c) ==
    IF city_normalized(c) = "newyork" THEN "new_york"
    ELSE IF city_normalized(c) = "tokyo" THEN "tokyo"
    ELSE IF city_normalized(c) = "london" THEN "london"
    ELSE NoKey

time_zone_of(c) ==
    IF lower(c) = "new york" THEN "new_york"
    ELSE IF lower(c) = "tokyo" THEN "tokyo"
    ELSE IF lower(c) = "london" THEN "london"
    ELSE NoKey

\* get_current_time reporting an unknown city under the 'report' key as well
get_current_time_both_keys(c, t) ==
    IF time_zone_of(c) = NoKey
    THEN [status |-> "error",
          report |-> "unknown",
          error_message |-> "Sorry, I don't have timezone information for " \o c \o "."]
    ELSE [status |-> "success",
          report |-> "The current time in " \o c \o " is "
                     \o strftime(t, zones[time_zone_of(c)])]

get_current_time(c, t) ==
    IF time_zone_of(c) = NoKey
    THEN [status |-> "error",
          error_message |-> "Sorry, I don't have timezone information for " \o c \o "."]
    ELSE [status |-> "success",
          report |-> "The current time in " \o c \o " is "
                     \o strftime(t, zones[time_zone_of(c)])]

(***************************************************************************)
(* block_keyword_guardrail                                                 *)
(***************************************************************************)
\* A types.Content is [role, parts]; a types.Part is [text].  A text of None
\* and a text of '' are both the empty string (the code only tests their
\* truth), and parts of None and of [] are both the empty sequence.
Part(text) == [text |-> text]

Content(role, parts) == [role |-> role, parts |-> parts]

None == [none |-> TRUE]

LlmResponse(content) == [content |-> content]

keyword_to_block == "BLOCK"

refusal_text ==
    "I cannot process this request because it contains the blocked keyword '"
    \o keyword_to_block \o "'."

\* for content in reversed(llm_request.contents): the text of the first part
\* of the first content, from index i downwards, that has role 'user', has
\* parts and has a first part with text; '' when there is none.
RECURSIVE scan_reversed(_, _)
scan_reversed(cs, i) ==
    IF i = 0 THEN ""
    ELSE IF /\ cs[i].role = "user"
            /\ cs[i].parts # <<>>
            /\ cs[i].parts[1].text # ""
         THEN cs[i].parts[1].text
         ELSE scan_reversed(cs, i - 1)

last_user_message_text(cs) == scan_reversed(cs, Len(cs))

\* the guardrail comparing the text without upper-casing it
block_keyword_guardrail_case_sensitive(st, cs) ==
    IF Contains(last_user_message_text(cs), keyword_to_block)
    THEN [response |-> LlmResponse(Content("model", <<Part(refusal_text)>>)),
          state    |-> StateSet(st, "guardrail_block_keyword_triggered", TRUE)]
    ELSE [response |-> None, state |-> st]

\* The callback recording the outcome of every call in the flag.
block_keyword_guardrail_records_allow(st, cs) ==
    IF Contains(upper(last_user_message_text(cs)), keyword_to_block)
    THEN [response |-> LlmResponse(Content("model", <<Part(refusal_text)>>)),
          state    |-> StateSet(st, "guardrail_block_keyword_triggered", TRUE)]
    ELSE [response |-> None,
          state    |-> StateSet(st, "guardrail_block_keyword_triggered", FALSE)]

\* The returned value and the session state the callback leaves behind.
block_keyword_guardrail(st, cs) ==
    IF Contains(upper(last_user_message_text(cs)), keyword_to_block)
    THEN [response |-> LlmResponse(Content("model", <<Part(refusal_text)>>)),
          state    |-> StateSet(st, "guardrail_block_keyword_triggered", TRUE)]
    ELSE [response |-> None, state |-> st]

(***************************************************************************)
(* The agents and their construction at import time.                       *)
(***************************************************************************)
AgentNames ==
    {"greeting_agent", "farewell_agent", "weather_agent_gpt", "weather_agent_claude",
     "weather_agent_team"}

\* What Agent(...) is given: name, tools, sub_agents, output_key and
\* before_model_callback (NoKey where the keyword argument is not passed).
greeting_agent_config ==
    [name |-> "greeting_agent", tools |-> {"say_hello"}, sub_agents |-> <<>>,
     output_key |-> NoKey, before_model_callback |-> NoKey]

farewell_agent_config ==
    [name |-> "farewell_agent", tools |-> {"say_goodbye"}, sub_agents |-> <<>>,
     output_key |-> NoKey, before_model_callback |-> NoKey]

weather_agent_gpt_config ==
    [name |-> "weather_agent_gpt", tools |-> {"get_weather"}, sub_agents |-> <<>>,
     output_key |-> NoKey, before_model_callback |-> NoKey]

weather_agent_claude_config ==
    [name |-> "weather_agent_claude", tools |-> {"get_weather"}, sub_agents |-> <<>>,
     output_key |-> NoKey, before_model_callback |-> NoKey]

\* sub_agents=[greeting_agent, weather_agent_gpt, weather_agent_claude, farewell_agent]
root_agent_config(a) ==
    [name |-> "weather_agent_team", tools |-> {"get_weather_stateful"},
     sub_agents |-> <<a.greeting_agent, a.weather_agent_gpt, a.weather_agent_claude,
                      a.farewell_agent>>,
     output_key |-> "last_weather_report", before_model_callback |-> NoKey]

\* Agent(**config): raises when this agent's own construction fails, and
\* when an entry of sub_agents is None (the framework's Agent accepts only
\* agents there).
AgentRaises(config, failing) ==
    \/ config.name \in failing
    \/ \E i \in 1..Len(config.sub_agents) : config.sub_agents[i] = None

NoAgents ==
    [greeting_agent |-> None, farewell_agent |-> None, weather_agent_gpt |-> None,
     weather_agent_claude |-> None, root_agent |-> None]

say_hello(name) == "Hello, " \o name \o "!"

say_goodbye == "Goodbye! Have a great day."

(***************************************************************************)
(* call_agent_async and the turn the runner makes of it.                   *)
(***************************************************************************)
default_response_text == "Agent did not produce a final response."

NoEvent == [author |-> NoKey, content |-> None, escalate |-> FALSE, error_message |-> ""]

TextEvent(author, text) ==
    [author |-> author, content |-> Content("model", <<Part(text)>>), escalate |-> FALSE,
     error_message |-> ""]

\* The text call_agent_async takes from the final event.
\* The escalation branch without the "or 'No specific message.'".
final_response_text_no_fallback(event) ==
    IF event.content # None /\ event.content.parts # <<>>
    THEN event.content.parts[1].text
    ELSE IF event.escalate
         THEN "Agent escalated: " \o event.error_message
         ELSE default_response_text

final_response_text(event) ==
    IF event.content # None /\ event.content.parts # <<>>
    THEN event.content.parts[1].text
    ELSE IF event.escalate
         THEN "Agent escalated: "
              \o (IF event.error_message # "" THEN event.error_message
                  ELSE "No specific message.")
         ELSE default_response_text

IdleTurn ==
    [phase |-> "idle", query |-> "", engine_invoked |-> FALSE, guardrail_ran |-> FALSE,
     event |-> NoEvent]

TeamIdle ==
    /\ pc = "off"
    /\ fails = {}
    /\ agents = NoAgents
    /\ reported = {}
    /\ script = <<>>
    /\ turn = IdleTurn
    /\ transcript = <<>>

\* call_agent_async is not running.
CallIdle ==
    /\ events = <<>>
    /\ consumed = 0
    /\ reply = default_response_text
    /\ call_pc = "off"

\* No session service has been created.
StoreIdle ==
    /\ sessions = [k \in {} |-> TRUE]
    /\ services = 0
    /\ written = [k \in {} |-> TRUE]

(***************************************************************************)
(* The inputs of the tools.                                                *)
(***************************************************************************)
\* Pieces a generated city string is put together from: the halves of a
\* table key in both cases and a space.
Fragments == {"to", "kyo", "TO", "Kyo", " "}

RECURSIVE Words(_)
Words(n) ==
    IF n = 0 THEN {""}
    ELSE LET W == Words(n - 1) IN W \cup {w \o f : w \in W, f \in Fragments}

\* Names as a caller would write them: the table's cities in several
\* spellings, near misses and cities outside the table.
CityNames ==
    {"New York", "new york", "NEW YORK", "newyork", "NewYork", " New York ", "N e w York",
     "London", "london", "LONDON", "Lon don", "London ", "lOnDoN",
     "Tokyo", "TOKYO",
     "Paris", "paris", "New Yorkshire", "York", "Londo", "Londonn", "Tokyo.", "new_york",
     "London, UK"}

Cities == CityNames \cup Words(MaxFragments)

UnitValues == {"Celsius", "Fahrenheit", "fahrenheit"}

\* Session states a session can hold when a tool is called: each key either
\* absent or set by an earlier write.
SessionStates ==
    {[k \in keys |->
        IF k = "user_preference_temperature_unit" THEN u ELSE TRUE] :
     keys \in SUBSET {"user_preference_temperature_unit",
                      "guardrail_block_keyword_triggered"},
     u \in UnitValues}

EmptyState == [k \in {} |-> TRUE]

Clock == {3, 20}

NoResult == [status |-> "none"]

(***************************************************************************)
(* The tools as operations on the session.                                 *)
(***************************************************************************)
Init ==
    /\ city \in Cities
    /\ state \in SessionStates
    /\ now \in Clock
    /\ result = NoResult
    /\ op = "none"
    /\ prev_op = "none"
    /\ contents = <<>>
    /\ verdict = None
    /\ TeamIdle
    /\ CallIdle
    /\ StoreIdle
    /\ ever_blocked = FALSE

CallGetWeather ==
    /\ result' = get_weather(city)
    /\ op' = "get_weather"
    /\ prev_op' = op
    /\ UNCHANGED <<city, state, now, contents, verdict, team_vars, call_vars,
                   store_vars, ever_blocked>>

CallGetWeatherStateful ==
    /\ result' = get_weather_stateful(city, state).result
    /\ state' = get_weather_stateful(city, state).state
    /\ op' = "get_weather_stateful"
    /\ prev_op' = op
    /\ UNCHANGED <<city, now, contents, verdict, team_vars, call_vars,
                   store_vars, ever_blocked>>

CallGetCurrentTime ==
    /\ result' = get_current_time(city, now)
    /\ op' = "get_current_time"
    /\ prev_op' = op
    /\ UNCHANGED <<city, state, now, contents, verdict, team_vars, call_vars,
                   store_vars, ever_blocked>>

\* stored_session.state["user_preference_temperature_unit"] = "Fahrenheit"
SetFahrenheit ==
    /\ op # "set_preference"
    /\ state' = StateSet(state, "user_preference_temperature_unit", "Fahrenheit")
    /\ op' = "set_preference"
    /\ prev_op' = op
    /\ UNCHANGED <<city, result, now, contents, verdict, team_vars, call_vars,
                   store_vars, ever_blocked>>

Next ==
    \/ CallGetWeather
    \/ CallGetWeatherStateful
    \/ CallGetCurrentTime
    \/ SetFahrenheit

Spec == Init /\ [][Next]_vars

(***************************************************************************)
(* The guardrail called on histories that grow turn by turn.               *)
(***************************************************************************)
UserTexts == {"", "Hi", "BLOCK", "un-bLoCk me"}

SecondTexts == {"Hi", "please block"}

\* The parts of a user turn: none, one text, or two.
UserParts ==
    {<<>>} \cup {<<Part(t)>> : t \in UserTexts}
           \cup {<<Part(t), Part(u)>> : t \in UserTexts, u \in SecondTexts}

Contents ==
    {Content("user", ps) : ps \in UserParts}
    \cup {Content("model", <<Part(t)>>) : t \in {"Hello!", "I will not block you"}}

GuardInit ==
    /\ city = ""
    /\ result = NoResult
    /\ now = 3
    /\ prev_op = "none"
    /\ op = "none"
    /\ state \in {EmptyState, [user_preference_temperature_unit |-> "Celsius"]}
    /\ contents = <<>>
    /\ verdict = None
    /\ TeamIdle
    /\ CallIdle
    /\ StoreIdle
    /\ ever_blocked = FALSE

\* A turn is appended to the history.
AppendContent ==
    /\ Len(contents) < MaxTurns
    /\ \E c \in Contents : contents' = Append(contents, c)
    /\ op' = "append"
    /\ UNCHANGED <<state, verdict, prev_op, tool_vars, team_vars, call_vars, store_vars,
                   ever_blocked>>

\* before_model_callback: block_keyword_guardrail(callback_context, llm_request)
CallGuardrail ==
    /\ verdict' = block_keyword_guardrail(state, contents).response
    /\ state' = block_keyword_guardrail(state, contents).state
    /\ op' = "guardrail"
    /\ ever_blocked' = (ever_blocked \/ verdict' # None)
    /\ UNCHANGED <<contents, prev_op, tool_vars, team_vars, call_vars, store_vars>>

GuardNext == AppendContent \/ CallGuardrail

GuardSpec == GuardInit /\ [][GuardNext]_vars

(***************************************************************************)
(* The external reasoning engine, as far as the agents' instructions and   *)
(* tools fix it: which agent answers a query and with which tool.          *)
(***************************************************************************)
\* The city a query names, as it is written in the query.
mentioned_city(q) ==
    IF Contains(lower(q), "london") THEN "London"
    ELSE IF Contains(lower(q), "new york") THEN "New York"
    ELSE IF Contains(lower(q), "tokyo") THEN "Tokyo"
    ELSE IF Contains(lower(q), "paris") THEN "Paris"
    ELSE NoKey

\* The agents the root agent's instruction and tools allow to answer q:
\* greetings go to greeting_agent, farewells to farewell_agent, weather
\* questions to weather_agent_gpt or weather_agent_claude or to the root
\* agent's own tool get_weather_stateful, anything else stays with the root.
Routes(q) ==
    IF mentioned_city(q) # NoKey
    THEN {"weather_agent_gpt", "weather_agent_claude", "weather_agent_team"}
    ELSE IF Contains(lower(q), "hello") THEN {"greeting_agent"}
    ELSE IF Contains(lower(q), "bye") THEN {"farewell_agent"}
    ELSE {"weather_agent_team"}

\* The text an agent makes of a tool's dict: the report, or the error message.
narrate(r) == IF r.status = "success" THEN r.report ELSE r.error_message

\* The answer of agent `name` to q in session state st: the text of its
\* final event and the session state its tool call leaves behind.
Answer(name, q, st) ==
    IF name = "greeting_agent" THEN [text |-> say_hello("there"), state |-> st]
    ELSE IF name = "farewell_agent" THEN [text |-> say_goodbye, state |-> st]
    ELSE IF name \in {"weather_agent_gpt", "weather_agent_claude"}
         THEN [text |-> narrate(get_weather(mentioned_city(q))), state |-> st]
    ELSE IF mentioned_city(q) # NoKey
         THEN [text  |-> narrate(get_weather_stateful(mentioned_city(q), st).result),
               state |-> get_weather_stateful(mentioned_city(q), st).state]
    ELSE [text |-> "I can help with greetings, weather and farewells.", state |-> st]

\* The output_key of the agent that authored the final event.
output_key_of(name) ==
    IF name = "weather_agent_team" THEN root_agent_config(NoAgents).output_key ELSE NoKey

(***************************************************************************)
(* Import of sub_agents.py and root_agent.py.                              *)
(***************************************************************************)
Ask(q) == [kind |-> "ask", query |-> q]

SetUnit == [kind |-> "set_fahrenheit", query |-> ""]

\* The steps of run_team_conversation after the runner is created.
team_script ==
    <<Ask("Hello there!"), Ask("What's the weather in London?"), SetUnit,
      Ask("What is the weather in New York?"), Ask("Thanks, bye!")>>

initial_state == [user_preference_temperature_unit |-> "Celsius"]

TeamInit ==
    /\ city = ""
    /\ result = NoResult
    /\ now = 3
    /\ op = "none"
    /\ prev_op = "none"
    /\ state = EmptyState
    /\ contents = <<>>
    /\ verdict = None
    /\ pc = "greeting_agent"
    /\ fails \in SUBSET AgentNames
    /\ agents = NoAgents
    /\ reported = {}
    /\ script = <<>>
    /\ turn = IdleTurn
    /\ transcript = <<>>
    /\ CallIdle
    /\ StoreIdle
    /\ ever_blocked = FALSE

\* greeting_agent = None; try: greeting_agent = Agent(...) except: print(...)
BuildGreetingAgent ==
    /\ pc = "greeting_agent"
    /\ IF AgentRaises(greeting_agent_config, fails)
       THEN /\ reported' = reported \cup {"greeting_agent"}
            /\ UNCHANGED agents
       ELSE /\ agents' = [agents EXCEPT !.greeting_agent = greeting_agent_config]
            /\ UNCHANGED reported
    /\ pc' = "farewell_agent"
    /\ UNCHANGED <<fails, script, turn, transcript, state, contents, verdict, op, prev_op,
                   tool_vars, call_vars, store_vars, ever_blocked>>

\* farewell_agent = None; try: farewell_agent = Agent(...) except: print(...)
BuildFarewellAgent ==
    /\ pc = "farewell_agent"
    /\ IF AgentRaises(farewell_agent_config, fails)
       THEN /\ reported' = reported \cup {"farewell_agent"}
            /\ UNCHANGED agents
       ELSE /\ agents' = [agents EXCEPT !.farewell_agent = farewell_agent_config]
            /\ UNCHANGED reported
    /\ pc' = "weather_agents"
    /\ UNCHANGED <<fails, script, turn, transcript, state, contents, verdict, op, prev_op,
                   tool_vars, call_vars, store_vars, ever_blocked>>

\* weather_agent_gpt = create_gpt_weather_agent();
\* weather_agent_claude = create_claude_weather_agent(): no try around them,
\* so an exception ends the import.
CreateWeatherAgents ==
    /\ pc = "weather_agents"
    /\ IF AgentRaises(weather_agent_gpt_config, fails)
       THEN pc' = "crashed" /\ UNCHANGED agents
       ELSE IF AgentRaises(weather_agent_claude_config, fails)
       THEN /\ pc' = "crashed"
            /\ agents' = [agents EXCEPT !.weather_agent_gpt = weather_agent_gpt_config]
       ELSE /\ pc' = "root_agent"
            /\ agents' = [agents EXCEPT !.weather_agent_gpt = weather_agent_gpt_config,
                                        !.weather_agent_claude = weather_agent_claude_config]
    /\ UNCHANGED <<fails, reported, script, turn, transcript, state, contents, verdict, op,
                   prev_op, tool_vars, call_vars, store_vars, ever_blocked>>

\* root_agent = None; try: root_agent = Agent(...) except: print(...); root_agent = None
BuildRootAgent ==
    /\ pc = "root_agent"
    /\ IF AgentRaises(root_agent_config(agents), fails)
       THEN /\ reported' = reported \cup {"weather_agent_team"}
            /\ UNCHANGED agents
       ELSE /\ agents' = [agents EXCEPT !.root_agent = root_agent_config(agents)]
            /\ UNCHANGED reported
    /\ pc' = "main"
    /\ UNCHANGED <<fails, script, turn, transcript, state, contents, verdict, op, prev_op,
                   tool_vars, call_vars, store_vars, ever_blocked>>

(***************************************************************************)
(* run_team_conversation and run_conversation.                             *)
(***************************************************************************)
\* The session is created with initial_state and the runner with the root
\* agent; print(f"... '{actual_root_agent.name}'") raises AttributeError on
\* None, which nothing catches.
StartTeamConversation ==
    /\ pc = "main"
    /\ state' = initial_state
    /\ IF agents.root_agent = None
       THEN pc' = "crashed" /\ UNCHANGED script
       ELSE pc' = "running" /\ script' = team_script
    /\ UNCHANGED <<fails, agents, reported, turn, transcript, contents, verdict, op, prev_op,
                   tool_vars, call_vars, store_vars, ever_blocked>>

\* The call without the await: a query is sent while the turn before it
\* is still in progress.
Receive_without_await ==
    /\ pc = "running"
    /\ script # <<>>
    /\ Head(script).kind = "ask"
    /\ turn' = [IdleTurn EXCEPT !.phase = "received", !.query = Head(script).query]
    /\ contents' = Append(contents, Content("user", <<Part(Head(script).query)>>))
    /\ script' = Tail(script)
    /\ UNCHANGED <<pc, fails, agents, reported, transcript, state, verdict, op, prev_op,
                   tool_vars, call_vars, store_vars, ever_blocked>>

\* call_agent_async: the query becomes a user Content handed to runner.run_async
Receive ==
    /\ pc = "running"
    /\ turn.phase = "idle"
    /\ script # <<>>
    /\ Head(script).kind = "ask"
    /\ turn' = [IdleTurn EXCEPT !.phase = "received", !.query = Head(script).query]
    /\ contents' = Append(contents, Content("user", <<Part(Head(script).query)>>))
    /\ script' = Tail(script)
    /\ UNCHANGED <<pc, fails, agents, reported, transcript, state, verdict, op, prev_op,
                   tool_vars, call_vars, store_vars, ever_blocked>>

\* Before the model is called the runner calls the agent's
\* before_model_callback, when it has one; a response it returns becomes the
\* final event and the model is not called.
BeforeModel ==
    /\ pc = "running"
    /\ turn.phase = "received"
    /\ IF agents.root_agent.before_model_callback = "block_keyword_guardrail"
       THEN /\ verdict' = block_keyword_guardrail(state, contents).response
            /\ state' = block_keyword_guardrail(state, contents).state
            /\ turn' = IF verdict' = None
                       THEN [turn EXCEPT !.phase = "dispatch", !.guardrail_ran = TRUE]
                       ELSE [turn EXCEPT !.phase = "final", !.guardrail_ran = TRUE,
                                         !.event = [NoEvent EXCEPT
                                                       !.author = "weather_agent_team",
                                                       !.content = verdict'.content]]
            /\ ever_blocked' = (ever_blocked \/ verdict' # None)
       ELSE /\ turn' = [turn EXCEPT !.phase = "dispatch"]
            /\ UNCHANGED <<state, verdict, ever_blocked>>
    /\ UNCHANGED <<pc, fails, agents, reported, script, transcript, contents, op, prev_op,
                   tool_vars, call_vars, store_vars>>

\* The engine answers: one of the agents the instruction allows takes the
\* query, calls its tool and authors the final event.
Dispatch ==
    /\ pc = "running"
    /\ turn.phase = "dispatch"
    /\ \E name \in Routes(turn.query) :
          /\ turn' = [turn EXCEPT !.phase = "final", !.engine_invoked = TRUE,
                                  !.event = TextEvent(name, Answer(name, turn.query, state).text)]
          /\ state' = Answer(name, turn.query, state).state
    /\ UNCHANGED <<pc, fails, agents, reported, script, transcript, contents, verdict, op,
                   prev_op, tool_vars, call_vars, store_vars, ever_blocked>>

\* The final event reaches call_agent_async, which takes the response text
\* from it; the text is stored under the author's output_key, when it has one.
Respond ==
    /\ pc = "running"
    /\ turn.phase = "final"
    /\ transcript' = Append(transcript, [query |-> turn.query,
                                         response |-> final_response_text(turn.event)])
    /\ state' = IF output_key_of(turn.event.author) # NoKey
                THEN StateSet(state, output_key_of(turn.event.author),
                              turn.event.content.parts[1].text)
                ELSE state
    /\ contents' = Append(contents, turn.event.content)
    /\ turn' = [turn EXCEPT !.phase = "idle"]
    /\ UNCHANGED <<pc, fails, agents, reported, script, verdict, op, prev_op, tool_vars,
                   call_vars, store_vars, ever_blocked>>

\* stored_session.state["user_preference_temperature_unit"] = "Fahrenheit"
ManualUpdate ==
    /\ pc = "running"
    /\ turn.phase = "idle"
    /\ script # <<>>
    /\ Head(script).kind = "set_fahrenheit"
    /\ state' = StateSet(state, "user_preference_temperature_unit", "Fahrenheit")
    /\ script' = Tail(script)
    /\ UNCHANGED <<pc, fails, agents, reported, turn, transcript, contents, verdict, op,
                   prev_op, tool_vars, call_vars, store_vars, ever_blocked>>

\* The last query is answered: the final session state is read and printed.
Finish ==
    /\ pc = "running"
    /\ turn.phase = "idle"
    /\ script = <<>>
    /\ pc' = "done"
    /\ UNCHANGED <<fails, agents, reported, script, turn, transcript, state, contents,
                   verdict, op, prev_op, tool_vars, call_vars, store_vars, ever_blocked>>

TeamNext ==
    \/ BuildGreetingAgent
    \/ BuildFarewellAgent
    \/ CreateWeatherAgents
    \/ BuildRootAgent
    \/ StartTeamConversation
    \/ Receive
    \/ BeforeModel
    \/ Dispatch
    \/ Respond
    \/ ManualUpdate
    \/ Finish

TeamSpec == TeamInit /\ [][TeamNext]_vars

\* Queries a caller may pass to run_conversation.
Queries ==
    {"Hello there!", "What's the weather in London?", "What is the weather in New York?",
     "Thanks, bye!", "BLOCK the weather in Tokyo", "Please unblock my account",
     "How about Paris?"}

RECURSIVE QueryLists(_)
QueryLists(n) ==
    IF n = 0 THEN {<<>>}
    ELSE LET L == QueryLists(n - 1)
         IN  L \cup {Append(l, Ask(q)) : l \in {x \in L : Len(x) = n - 1}, q \in Queries}

AllAgents ==
    LET subs == [NoAgents EXCEPT !.greeting_agent = greeting_agent_config,
                                 !.farewell_agent = farewell_agent_config,
                                 !.weather_agent_gpt = weather_agent_gpt_config,
                                 !.weather_agent_claude = weather_agent_claude_config]
    IN  [subs EXCEPT !.root_agent = root_agent_config(subs)]

\* run_conversation(runner, user_id, session_id, queries) with the runner and
\* the fresh session setup_session makes for the root agent.
ConvInit ==
    /\ city = ""
    /\ result = NoResult
    /\ now = 3
    /\ op = "none"
    /\ prev_op = "none"
    /\ state = EmptyState
    /\ contents = <<>>
    /\ verdict = None
    /\ pc = "running"
    /\ fails = {}
    /\ agents = AllAgents
    /\ reported = {}
    /\ script \in QueryLists(MaxQueries)
    /\ turn = IdleTurn
    /\ transcript = <<>>
    /\ CallIdle
    /\ StoreIdle
    /\ ever_blocked = FALSE

ConvNext == Receive \/ BeforeModel \/ Dispatch \/ Respond \/ Finish

ConvSpec == ConvInit /\ [][ConvNext]_vars

\* Both conversation drivers: run_team_conversation after the import, and
\* run_conversation with a list of queries.
TurnsSpec == (TeamInit \/ ConvInit) /\ [][TeamNext]_vars

(***************************************************************************)
(* call_agent_async over the events runner.run_async yields for one turn.  *)
(***************************************************************************)
MaxEvents == 3

\* An event as call_agent_async reads it: is_final_response(), content,
\* actions.escalate and error_message (None is the empty message).
StreamEvent(final, content, escalate, error_message) ==
    [author |-> "weather_agent_team", content |-> content, escalate |-> escalate,
     error_message |-> error_message, is_final |-> final]

\* Events before the final one: a tool call (its part has no text) and a
\* partial text.
IntermediateEvents ==
    {StreamEvent(FALSE, Content("model", <<Part("")>>), FALSE, ""),
     StreamEvent(FALSE, Content("model", <<Part("Checking the weather.")>>), FALSE, "")}

EventContents ==
    {None,
     Content("model", <<>>),
     Content("model", <<Part("It is sunny.")>>),
     Content("model", <<Part("It is sunny."), Part("Anything else?")>>)}

FinalEvents ==
    {StreamEvent(TRUE, c, FALSE, "") : c \in EventContents}
    \cup {StreamEvent(TRUE, c, TRUE, m) : c \in EventContents, m \in {"", "quota exceeded"}}

StreamEvents == IntermediateEvents \cup FinalEvents

RECURSIVE EventStreams(_)
EventStreams(n) ==
    IF n = 0 THEN {<<>>}
    ELSE LET L == EventStreams(n - 1)
         IN  L \cup {Append(l, ev) : l \in {x \in L : Len(x) = n - 1}, ev \in StreamEvents}

\* call_agent_async is entered: final_response_text holds the default and the
\* loop over runner.run_async(...) starts.
CallInit ==
    /\ city = ""
    /\ result = NoResult
    /\ now = 3
    /\ op = "none"
    /\ prev_op = "none"
    /\ state = EmptyState
    /\ contents = <<>>
    /\ verdict = None
    /\ TeamIdle
    /\ StoreIdle
    /\ ever_blocked = FALSE
    /\ events \in EventStreams(MaxEvents)
    /\ consumed = 0
    /\ reply = default_response_text
    /\ call_pc = "loop"

\* The loop body without the break: the loop goes on after a final event.
NextEvent_no_break ==
    /\ call_pc = "loop"
    /\ consumed < Len(events)
    /\ consumed' = consumed + 1
    /\ reply' = IF events[consumed + 1].is_final
                THEN final_response_text(events[consumed + 1])
                ELSE reply
    /\ UNCHANGED <<events, call_pc, city, state, result, op, prev_op, now, contents, verdict,
                   team_vars, store_vars, ever_blocked>>

\* One iteration of "async for event in runner.run_async(...)": a final
\* event sets final_response_text and breaks, any other event is skipped.
NextEvent ==
    /\ call_pc = "loop"
    /\ consumed < Len(events)
    /\ consumed' = consumed + 1
    /\ IF events[consumed + 1].is_final
       THEN /\ reply' = final_response_text(events[consumed + 1])
            /\ call_pc' = "printed"
       ELSE UNCHANGED <<reply, call_pc>>
    /\ UNCHANGED <<events, city, state, result, op, prev_op, now, contents, verdict,
                   team_vars, store_vars, ever_blocked>>

\* The stream is exhausted without a final event: the loop ends and
\* final_response_text is printed as it is.
StreamEnds ==
    /\ call_pc = "loop"
    /\ consumed = Len(events)
    /\ call_pc' = "printed"
    /\ UNCHANGED <<events, consumed, reply, city, state, result, op, prev_op, now, contents,
                   verdict, team_vars, store_vars, ever_blocked>>

CallNext == NextEvent \/ StreamEnds

CallSpec == CallInit /\ [][CallNext]_vars

(***************************************************************************)
(* Session services: setup_session and the session of                      *)
(* run_team_conversation.  A session is found by the service that holds it *)
(* and by (app_name, user_id, session_id).                                 *)
(***************************************************************************)
MaxServices == 3

SessionId(app, user, sid) == [app_name |-> app, user_id |-> user, session_id |-> sid]

TeamSessionId ==
    SessionId("weather_tutorial_agent_team", "user_1_agent_team", "session_001_agent_team")

\* The ids callers pass to setup_session: those of run_gpt_agent, the ids of
\* the team run, and the team's app and user with another session id.
SessionIds ==
    {SessionId("weather_tutorial_app_gpt_with_lite_llm", "user_1_gpt", "session_001_gpt"),
     TeamSessionId,
     SessionId("weather_tutorial_agent_team", "user_1_agent_team", "session_002_agent_team")}

\* f with key k bound to v (a new entry of a dict, or a replaced one).
Put(f, k, v) == [x \in DOMAIN f \cup {k} |-> IF x = k THEN v ELSE f[x]]

\* session_service.get_session(app_name, user_id, session_id).state
get_session(k) == sessions[k]

OtherVars ==
    <<city, state, result, op, prev_op, now, contents, verdict, team_vars, call_vars,
      ever_blocked>>

StoreInit ==
    /\ city = ""
    /\ result = NoResult
    /\ now = 3
    /\ op = "none"
    /\ prev_op = "none"
    /\ state = EmptyState
    /\ contents = <<>>
    /\ verdict = None
    /\ TeamIdle
    /\ CallIdle
    /\ StoreIdle
    /\ ever_blocked = FALSE

\* A session made from the state of a session that exists already.
SetupSession_inherits ==
    /\ services < MaxServices
    /\ services' = services + 1
    /\ \E id \in SessionIds :
          /\ \E st \in {EmptyState} \cup {sessions[k] : k \in DOMAIN sessions} :
                sessions' = Put(sessions, <<services + 1, id>>, st)
          /\ written' = Put(written, <<services + 1, id>>, EmptyState)
    /\ UNCHANGED OtherVars

\* setup_session(agent, app_name, user_id, session_id): a new
\* InMemorySessionService and in it a session created without a state.
SetupSession ==
    /\ services < MaxServices
    /\ services' = services + 1
    /\ \E id \in SessionIds :
          /\ sessions' = Put(sessions, <<services + 1, id>>, EmptyState)
          /\ written' = Put(written, <<services + 1, id>>, EmptyState)
    /\ UNCHANGED OtherVars

\* run_team_conversation: a new InMemorySessionService and in it the team
\* session, created with state=initial_state.
CreateTeamSession ==
    /\ services < MaxServices
    /\ services' = services + 1
    /\ sessions' = Put(sessions, <<services + 1, TeamSessionId>>, initial_state)
    /\ written' = Put(written, <<services + 1, TeamSessionId>>, initial_state)
    /\ UNCHANGED OtherVars

\* A turn of the session calls get_weather_stateful: tool_context.state is
\* the state of that session.
ToolWritesSession ==
    /\ \E k \in DOMAIN sessions, c \in {"London", "Paris"} :
          /\ sessions' = [sessions EXCEPT ![k] = get_weather_stateful(c, @).state]
          /\ written' = IF get_weather_stateful(c, sessions[k]).result.status = "success"
                        THEN [written EXCEPT ![k] = StateSet(@, "last_city_checked_stateful", c)]
                        ELSE written
    /\ UNCHANGED <<services, OtherVars>>

\* stored_session = session_service.sessions[APP_NAME][USER_ID][SESSION_ID];
\* stored_session.state["user_preference_temperature_unit"] = "Fahrenheit"
ManualWritesSession ==
    /\ \E k \in DOMAIN sessions :
          /\ k[2] = TeamSessionId
          /\ sessions' = [sessions EXCEPT
                            ![k] = StateSet(@, "user_preference_temperature_unit",
                                            "Fahrenheit")]
          /\ written' = [written EXCEPT
                           ![k] = StateSet(@, "user_preference_temperature_unit",
                                           "Fahrenheit")]
    /\ UNCHANGED <<services, OtherVars>>

StoreNext == SetupSession \/ CreateTeamSession \/ ToolWritesSession \/ ManualWritesSession

StoreSpec == StoreInit /\ [][StoreNext]_vars

(***************************************************************************)
(* Properties of the tools.                                                *)
(***************************************************************************)
TableKeys == {"newyork", "london", "tokyo"}

FixtureReport ==
    [newyork |-> "The weather in New York is sunny with a temperature of 25°C.",
     london  |-> "It's cloudy in London with a temperature of 15°C.",
     tokyo   |-> "Tokyo is experiencing light rain and a temperature of 18°C."]

\* C1: get_weather answers a city whose lower-cased, space-stripped form is a
\* table key with status 'success' and exactly that city's fixed report, and
\* every other city with status 'error' and an error_message that contains
\* the city string as it was passed.
C1_GetWeatherTable ==
    op = "get_weather" =>
        IF city_normalized(city) \in TableKeys
        THEN result = [status |-> "success", report |-> FixtureReport[city_normalized(city)]]
        ELSE /\ DOMAIN result = {"status", "error_message"}
             /\ result.status = "error"
             /\ Contains(result.error_message, city)

C1_Witness ==
    /\ op = "get_weather"
    /\ city = " New York "
    /\ result.status = "success"

IsToolResult(r) ==
    \/ r.status = "success" /\ DOMAIN r = {"status", "report"}
    \/ r.status = "error" /\ DOMAIN r = {"status", "error_message"}

ToolOps == {"get_weather", "get_weather_stateful", "get_current_time"}

\* C5: every call of get_weather, get_weather_stateful and get_current_time
\* returns a dict that is exactly one variant: 'success' with a report and no
\* error_message, or 'error' with an error_message and no report.
C5_ExactlyOneVariant == op \in ToolOps => IsToolResult(result)

C5_Witness ==
    /\ op = "get_current_time"
    /\ prev_op = "get_weather_stateful"
    /\ city = "newyork"
    /\ result.status = "error"

ExpectedFahrenheit == [newyork |-> "77", london |-> "59", tokyo |-> "64"]

ExpectedCelsius == [newyork |-> "25", london |-> "15", tokyo |-> "18"]

\* C6: with the unit preference 'Fahrenheit', get_weather_stateful reports 77
\* for New York, 59 for London and 64 for Tokyo, followed by the unit °F.
C6_FahrenheitRounded ==
    (/\ op = "get_weather_stateful"
     /\ result.status = "success"
     /\ preferred_unit(state) = "Fahrenheit")
    => Contains(result.report,
                " temperature of " \o ExpectedFahrenheit[city_normalized(city)] \o "°F.")

C6_Witness ==
    /\ op = "get_weather_stateful"
    /\ city = "Tokyo"
    /\ preferred_unit(state) = "Fahrenheit"
    /\ Contains(result.report, "64°F")

\* C7: when the key user_preference_temperature_unit is absent, the report of
\* a known city carries the table's Celsius value with the unit °C, and is
\* the report the call gives when the key holds 'Celsius'.
C7_DefaultCelsius ==
    (/\ op = "get_weather_stateful"
     /\ result.status = "success"
     /\ "user_preference_temperature_unit" \notin DOMAIN state)
    => /\ Contains(result.report,
                   " temperature of " \o ExpectedCelsius[city_normalized(city)] \o "°C.")
       /\ result = get_weather_stateful(
                       city, StateSet(state, "user_preference_temperature_unit",
                                      "Celsius")).result

C7_Witness ==
    /\ op = "get_weather_stateful"
    /\ "user_preference_temperature_unit" \notin DOMAIN state
    /\ city = "London"
    /\ Contains(result.report, "15°C")

\* C8: a get_weather_stateful call that directly follows a
\* get_weather_stateful call with the same city returns the same dict and
\* leaves the session state as the first call left it.
C8_Idempotent ==
    [][(op = "get_weather_stateful" /\ CallGetWeatherStateful)
        => (result' = result /\ state' = state)]_vars

C8_Witness ==
    /\ op = "get_weather_stateful"
    /\ prev_op = "get_weather_stateful"
    /\ result.status = "success"
    /\ preferred_unit(state) = "Fahrenheit"

(***************************************************************************)
(* Properties of the guardrail.                                            *)
(***************************************************************************)
UserTurns(cs) == {i \in 1..Len(cs) : cs[i].role = "user"}

\* The index of the most recent user-authored turn (0 when there is none).
LatestUserTurn(cs) ==
    IF UserTurns(cs) = {} THEN 0
    ELSE CHOOSE i \in UserTurns(cs) : \A j \in UserTurns(cs) : j <= i

HasBlock(text) == Contains(lower(text), "block")

\* Some part of the turn has the keyword, in any letter case.
TurnHasBlock(c) == \E i \in 1..Len(c.parts) : HasBlock(c.parts[i].text)

FirstPartHasBlock(c) == c.parts # <<>> /\ HasBlock(c.parts[1].text)

IsRefusal(v) ==
    v = [content |->
            [role |-> "model",
             parts |-> <<[text |-> "I cannot process this request because it contains the blocked keyword 'BLOCK'."]>>]]

Blocked ==
    /\ IsRefusal(verdict)
    /\ "guardrail_block_keyword_triggered" \in DOMAIN state
    /\ state["guardrail_block_keyword_triggered"] = TRUE

\* C2 as stated: whenever the most recent user turn contains 'block' in any
\* letter case, the guardrail returns the refusal and sets the flag.
C2_LatestTurnWithKeywordBlocked ==
    (/\ op = "guardrail"
     /\ LatestUserTurn(contents) > 0
     /\ TurnHasBlock(contents[LatestUserTurn(contents)]))
    => Blocked

\* C2 amended: whenever the text of the first part of the most recent user
\* turn contains 'block' in any letter case, the guardrail returns the
\* refusal and sets the flag guardrail_block_keyword_triggered to True.
C2_FirstPartWithKeywordBlocked ==
    (/\ op = "guardrail"
     /\ LatestUserTurn(contents) > 0
     /\ FirstPartHasBlock(contents[LatestUserTurn(contents)]))
    => Blocked

C2_Witness ==
    /\ op = "guardrail"
    /\ Len(contents) = 3
    /\ contents[1] = Content("user", <<Part("Hi")>>)
    /\ contents[3] = Content("user", <<Part("un-bLoCk me")>>)
    /\ Blocked

\* C3: when the most recent user turn does not contain 'block' (a turn with
\* no parts or with an empty first text included), the guardrail allows the
\* request, whatever earlier turns contain.
C3_OnlyLatestTurnInspected ==
    (/\ op = "guardrail"
     /\ LatestUserTurn(contents) > 0
     /\ ~TurnHasBlock(contents[LatestUserTurn(contents)]))
    => verdict = None

(***************************************************************************)
(* Properties of the agent team.                                           *)
(***************************************************************************)
\* C4: a turn of the root agent whose user text carries the blocked keyword
\* has the guardrail run before dispatch, never reaches the engine, and ends
\* with the refusal text as its final event.
C4_BlockedTurnSkipsEngine ==
    (HasBlock(turn.query) /\ turn.phase \in {"dispatch", "final"})
    => /\ turn.guardrail_ran
       /\ ~turn.engine_invoked
       /\ turn.phase = "final"
       /\ final_response_text(turn.event) = refusal_text

LondonTurn == 2

NewYorkTurn == 3

\* C9: when run_team_conversation has finished, the London response contains
\* '15°C', the New York response contains '77°F', and the session state
\* holds the New York response text under last_weather_report.
C9_TeamScenario ==
    pc = "done" =>
        /\ Len(transcript) = Len(SelectSeq(team_script, LAMBDA st : st.kind = "ask"))
        /\ Contains(transcript[LondonTurn].response, "15°C")
        /\ Contains(transcript[NewYorkTurn].response, "77°F")
        /\ "last_weather_report" \in DOMAIN state
        /\ state["last_weather_report"] = transcript[NewYorkTurn].response

\* C10: when only the greeting or the farewell agent fails to construct, the
\* failure is caught and reported, and once the modules are imported the
\* root agent, both weather agents and the other of the two exist.
C10_FailureIsLocal ==
    (/\ pc = "main"
     /\ fails # {}
     /\ fails \subseteq {"greeting_agent", "farewell_agent"})
    => /\ fails \subseteq reported
       /\ agents.root_agent # None
       /\ agents.weather_agent_gpt # None
       /\ agents.weather_agent_claude # None
       /\ "greeting_agent" \notin fails => agents.greeting_agent # None
       /\ "farewell_agent" \notin fails => agents.farewell_agent # None

\* C11: when the construction of the root agent failed at import (root_agent
\* is None), run_team_conversation ends without an uncaught exception and
\* sends no turn to the engine.
C11_DisabledFallback ==
    ("weather_agent_team" \in reported /\ agents.root_agent = None)
    => /\ pc # "crashed"
       /\ ~turn.engine_invoked
       /\ transcript = <<>>

(***************************************************************************)
(* Properties of call_agent_async.                                         *)
(***************************************************************************)
\* The position of the first final event of a stream, 0 when it has none.
FirstFinal(evs) ==
    IF \E i \in 1..Len(evs) : evs[i].is_final
    THEN CHOOSE i \in 1..Len(evs) :
             evs[i].is_final /\ \A j \in 1..(i - 1) : ~evs[j].is_final
    ELSE 0

HasParts(ev) == ev.content # None /\ Len(ev.content.parts) > 0

EscalationLabel == "Agent escalated: "

\* C12 as stated: whenever the final event of the turn has the escalate flag
\* set, with or without content parts and with or without a message, the
\* response is the event's escalation message verbatim (bare, or behind the
\* label call_agent_async puts before it).
C12_EscalationSurfacedVerbatim ==
    (/\ call_pc = "printed"
     /\ FirstFinal(events) > 0
     /\ events[FirstFinal(events)].escalate)
    => reply \in {events[FirstFinal(events)].error_message,
                  EscalationLabel \o events[FirstFinal(events)].error_message}

\* The escalation text of an event: the label, then its message or the
\* stand-in for an empty one.
EscalationText(ev) ==
    EscalationLabel
    \o (IF ev.error_message = "" THEN "No specific message." ELSE ev.error_message)

\* C12 amended: when the final event has the escalate flag set and carries no
\* content parts, the response is the label followed by the event's message
\* verbatim, or by 'No specific message.' when the message is empty; when it
\* carries content parts, the response is the text of the first part.
C12_EscalationWithoutContent ==
    (/\ call_pc = "printed"
     /\ FirstFinal(events) > 0
     /\ events[FirstFinal(events)].escalate)
    => reply = IF HasParts(events[FirstFinal(events)])
               THEN events[FirstFinal(events)].content.parts[1].text
               ELSE EscalationText(events[FirstFinal(events)])

C12_Witness ==
    /\ call_pc = "printed"
    /\ Len(events) = 2
    /\ ~events[1].is_final
    /\ events[2] = StreamEvent(TRUE, Content("model", <<>>), TRUE, "quota exceeded")
    /\ reply = "Agent escalated: quota exceeded"

\* C16 as stated: the loop stops at the first final event, whose first
\* content part gives the response, else its escalation text; later events
\* are not taken; a stream without a final event gives the default text.
C16_TextElseEscalation ==
    call_pc = "printed" =>
        IF FirstFinal(events) = 0
        THEN consumed = Len(events) /\ reply = default_response_text
        ELSE /\ consumed = FirstFinal(events)
             /\ reply = IF HasParts(events[FirstFinal(events)])
                         THEN events[FirstFinal(events)].content.parts[1].text
                         ELSE EscalationText(events[FirstFinal(events)])

\* C16 amended: as above, with the third case of a final event: one that has
\* neither content parts nor the escalate flag leaves the default text.
C16_FirstFinalDecides ==
    call_pc = "printed" =>
        IF FirstFinal(events) = 0
        THEN consumed = Len(events) /\ reply = default_response_text
        ELSE /\ consumed = FirstFinal(events)
             /\ reply = IF HasParts(events[FirstFinal(events)])
                         THEN events[FirstFinal(events)].content.parts[1].text
                         ELSE IF events[FirstFinal(events)].escalate
                              THEN EscalationText(events[FirstFinal(events)])
                              ELSE default_response_text

C16_Witness ==
    /\ call_pc = "printed"
    /\ Len(events) = 3
    /\ ~events[1].is_final
    /\ events[2] = StreamEvent(TRUE, Content("model", <<Part("It is sunny.")>>), FALSE, "")
    /\ events[3] = StreamEvent(TRUE, None, TRUE, "quota exceeded")
    /\ consumed = 2
    /\ reply = "It is sunny."

(***************************************************************************)
(* Properties of the conversation drivers.                                 *)
(***************************************************************************)
\* The queries sent so far, and the turns that have reached Responded.
TurnsStarted == Len(SelectSeq(contents, LAMBDA c : c.role = "user"))

TurnsResponded == Len(transcript)

\* C13: at most one turn is in progress, and exactly when the turn record is
\* not idle; a query is sent, and the session state is written outside a
\* turn (the manual update), only when every turn sent so far has responded.
C13_TurnsSequential ==
    /\ [](TurnsStarted - TurnsResponded = IF turn.phase = "idle" THEN 0 ELSE 1)
    /\ [][(\/ Len(contents') > Len(contents) /\ contents'[Len(contents')].role = "user"
           \/ pc = "running" /\ state' # state /\ turn' = turn)
          => TurnsStarted = TurnsResponded]_vars

C13_Witness ==
    /\ pc = "running"
    /\ TurnsResponded = 1
    /\ TurnsStarted = 2
    /\ turn.phase = "final"
    /\ turn.query # transcript[1].query

(***************************************************************************)
(* Properties of the sessions.                                             *)
(***************************************************************************)
\* C14: every value written under a key of a session (by its initial state,
\* by the tool, by the manual update) is what the session returns under that
\* key; a step changes at most one session and loses none; a session that is
\* created holds exactly the state its creation passed, which for
\* setup_session is no key at all.
C14_RoundTripAndIsolation ==
    /\ [](\A k \in DOMAIN written : \A key \in DOMAIN written[k] :
             /\ k \in DOMAIN sessions
             /\ key \in DOMAIN get_session(k)
             /\ get_session(k)[key] = written[k][key])
    /\ [][/\ DOMAIN sessions \subseteq DOMAIN sessions'
          /\ Cardinality({k \in DOMAIN sessions : sessions'[k] # sessions[k]}) <= 1
          /\ \A k \in DOMAIN sessions' \ DOMAIN sessions :
                /\ \A j \in DOMAIN sessions : sessions'[j] = sessions[j]
                /\ sessions'[k] \in IF k[2] = TeamSessionId
                                     THEN {EmptyState, initial_state}
                                     ELSE {EmptyState}]_vars

C14_Witness ==
    \E k1 \in DOMAIN sessions, k2 \in DOMAIN sessions, k3 \in DOMAIN sessions :
        /\ k1[1] < k2[1]
        /\ k1[2] = k2[2]
        /\ "last_city_checked_stateful" \in DOMAIN sessions[k1]
        /\ sessions[k1]["last_city_checked_stateful"] = "London"
        /\ sessions[k2] = EmptyState
        /\ k3[2] = TeamSessionId
        /\ "user_preference_temperature_unit" \in DOMAIN sessions[k3]
        /\ sessions[k3]["user_preference_temperature_unit"] = "Fahrenheit"

(***************************************************************************)
(* More properties of the tools.                                           *)
(***************************************************************************)
\* The names get_current_time compares the lower-cased city with.
TimeNames == {"new york", "tokyo", "london"}

\* C15 as stated: get_current_time succeeds exactly for the city strings
\* get_weather succeeds for, and otherwise returns an error whose message
\* contains the city.
C15_SameCityTable ==
    op = "get_current_time" =>
        /\ result.status = get_weather(city).status
        /\ result.status = "error" => Contains(result.error_message, city)

\* C15 amended: get_current_time succeeds exactly when the lower-cased city
\* is 'new york', 'tokyo' or 'london' (spaces are not dropped); each such
\* string is also one get_weather succeeds for; otherwise it returns an
\* error whose message contains the city.
C15_TimeTableWithinWeatherTable ==
    op = "get_current_time" =>
        /\ result.status \in {"success", "error"}
        /\ result.status = "success" <=> lower(city) \in TimeNames
        /\ result.status = "success" => get_weather(city).status = "success"
        /\ result.status = "error" => Contains(result.error_message, city)

C15_Witness ==
    /\ op = "get_current_time"
    /\ city = "New York"
    /\ result.status = "success"
    /\ get_weather(city).status = "success"

\* C17: a call of get_weather_stateful changes nothing but its result and
\* the session state; when the city is known it binds
\* last_city_checked_stateful to the city as passed and keeps every other
\* key and value; when the city is unknown it returns the error variant and
\* the session state is as before.
C17_WritesOnlyLastCity ==
    [][op' = "get_weather_stateful" =>
         /\ UNCHANGED <<city, now, contents, verdict, team_vars, call_vars, store_vars,
                        ever_blocked>>
         /\ result'.status = (IF city_normalized(city) \in TableKeys THEN "success"
                              ELSE "error")
         /\ result'.status = "success" =>
                /\ DOMAIN state' = DOMAIN state \cup {"last_city_checked_stateful"}
                /\ state'["last_city_checked_stateful"] = city
                /\ \A k \in DOMAIN state \ {"last_city_checked_stateful"} :
                       state'[k] = state[k]
         /\ result'.status = "error" =>
                /\ DOMAIN result' = {"status", "error_message"}
                /\ state' = state]_vars

C17_Witness ==
    /\ op = "get_weather_stateful"
    /\ prev_op = "none"
    /\ city = "Tokyo"
    /\ result.status = "success"
    /\ DOMAIN state = {"user_preference_temperature_unit",
                       "guardrail_block_keyword_triggered", "last_city_checked_stateful"}
    /\ state["last_city_checked_stateful"] = "Tokyo"
    /\ state["user_preference_temperature_unit"] = "fahrenheit"

(***************************************************************************)
(* More properties of the guardrail.                                       *)
(***************************************************************************)
FlagSet(st) ==
    /\ "guardrail_block_keyword_triggered" \in DOMAIN st
    /\ st["guardrail_block_keyword_triggered"] = TRUE

\* C18: on a session that starts without the flag, the flag is True exactly
\* when some call of the guardrail so far has returned a blocking response;
\* a call that returns None leaves the session state as it was; a flag that
\* is True stays True.
C18_FlagIffEverBlocked ==
    /\ [](FlagSet(state) <=> ever_blocked)
    /\ [][(op' = "guardrail" /\ verdict' = None) => state' = state]_vars
    /\ [][FlagSet(state) => FlagSet(state')]_vars

C18_Witness ==
    /\ op = "guardrail"
    /\ verdict = None
    /\ ever_blocked
    /\ FlagSet(state)
    /\ Len(contents) >= 2

====
